---- MODULE Spec2Model ----
(***************************************************************************)
(* Model of discord-gdpr-counter (src/src/main.rs, the same scan in        *)
(* src/src/file_operations.rs): main's pipeline prepare_data_root ->       *)
(* load_mappings -> process_conversations -> filter_and_sort_conversations *)
(* -> print_conversations, one action per step of the code.                *)
(*                                                                         *)
(* Strings are sequences of one-character strings, so that trimming a      *)
(* prefix and format!() are computed, not assumed.                         *)
(***************************************************************************)
EXTENDS Integers, Sequences, FiniteSets, TLC

VARIABLES
    input_path,       \* what the path is: cli.input_path, then the data root
    tree,             \* the export under the data root (never written)
    cli,              \* the parsed command line options
    pc,               \* main's position
    channel_mapping,  \* Option<HashMap>: [present, map]
    guild_mapping,    \* Option<HashMap>: [present, map]
    idx,              \* position of the for loop in the directory listing
    conversations,    \* Vec<Conversation>
    guilds,           \* HashMap<String, Conversation>
    scan_result,      \* "pending", "Ok" or "Err": what process_conversations returned
    filtered,         \* filter_and_sort_conversations' result
    pidx,             \* position of print_conversations' loop
    stdout,           \* lines printed with println!
    stderr,           \* lines printed with eprintln!
    exit_status,      \* "running", or the process' exit status
    run,              \* 1 for the first run of the program, 2 for a re-run
    first_filtered    \* the first run's filtered list, kept for the re-run

vars == <<input_path, tree, cli, pc, channel_mapping, guild_mapping, idx,
          conversations, guilds, scan_result, filtered, pidx, stdout, stderr,
          exit_status, run, first_filtered>>

----------------------------------------------------------------------------
(* Bounds *)

\* most entries in the messages/ folder
MaxUnits == 2
\* most messages in one messages.json
MaxCount == 1
\* most conversations handed to filter_and_sort_conversations on its own
MaxConvs == 3

----------------------------------------------------------------------------
(* Strings *)

Unknown == <<"U","n","k","n","o","w","n">>
GuildPrefix == <<"G","u","i","l","d"," ">>
ConversationPrefix == <<"C","o","n","v","e","r","s","a","t","i","o","n"," ">>

\* str::trim_start_matches(c): every leading occurrence of c is removed
RECURSIVE trim_start_matches(_, _)
trim_start_matches(s, c) ==
    IF s # <<>> /\ Head(s) = c THEN trim_start_matches(Tail(s), c) ELSE s

\* format!("Guild {}", guild_id)
format_guild(guild_id) == GuildPrefix \o guild_id

\* format!("Conversation {}", channel_id)
format_conversation(channel_id) == ConversationPrefix \o channel_id

\* Option<HashMap>::as_ref().and_then(|m| m.get(key)).cloned().unwrap_or_else(fallback)
lookup_or(mapping, key, fallback) ==
    IF mapping.present /\ key \in DOMAIN mapping.map
    THEN mapping.map[key]
    ELSE fallback

NoMapping == [present |-> FALSE, map |-> <<>>]
SomeMapping(m) == [present |-> TRUE, map |-> m]

----------------------------------------------------------------------------
(* Conversation and Channel *)

DmOrGc(name, message_count) ==
    [type |-> "DmOrGc", name |-> name, message_count |-> message_count,
     channels |-> <<>>]

Guild(name, message_count, channels) ==
    [type |-> "Guild", name |-> name, message_count |-> message_count,
     channels |-> channels]

Channel(name, message_count) == [name |-> name, message_count |-> message_count]

RECURSIVE SumCounts(_)
SumCounts(chs) ==
    IF chs = <<>> THEN 0 ELSE Head(chs).message_count + SumCounts(Tail(chs))

----------------------------------------------------------------------------
(* The export: what the program reads, drawn in Init *)

\* names of the entries of messages/, by position in the listing
DirNames == << <<"c","c","1">>, <<"c","2">>, <<"c","1">>, <<"3">> >>

Alice == <<"a","l","i","c","e">>
Bob == <<"b","o","b">>
G1 == <<"g","1">>
Srv == <<"s","r","v">>
Lost == <<"l","o","s","t">>
General == <<"g","e","n">>

\* an index.json: missing, unparsable ("bad"), or a flat string -> string table
IndexFile(state, map) == [state |-> state, map |-> map]

ChannelIndexFiles ==
    { IndexFile("missing", <<>>),
      IndexFile("bad", <<>>),
      IndexFile("ok", (<<"1">> :> Alice) @@ (<<"c","1">> :> Bob)) }

ServerIndexFiles ==
    { IndexFile("missing", <<>>),
      IndexFile("bad", <<>>),
      IndexFile("ok", (G1 :> Srv)),
      IndexFile("ok", (Unknown :> Lost)) }

\* a parsed channel.json: the "guild" key, the guild's "id", the "name"
ChannelInfo(has_guild, id_kind, guild_id, has_name, name) ==
    [has_guild |-> has_guild, id_kind |-> id_kind, guild_id |-> guild_id,
     has_name |-> has_name, name |-> name]

InfoDm == ChannelInfo(FALSE, "absent", <<>>, FALSE, <<>>)

ChannelInfos ==
    { InfoDm,
      ChannelInfo(TRUE, "absent", <<>>, TRUE, General),
      ChannelInfo(TRUE, "number", <<>>, FALSE, <<>>),
      ChannelInfo(TRUE, "string", G1, TRUE, General) }

FileStates == {"missing", "bad", "ok"}

\* one entry of messages/, without its name
Entry(is_dir, channel_json, info, messages_json, count) ==
    [is_dir |-> is_dir, channel_json |-> channel_json, info |-> info,
     messages_json |-> messages_json, count |-> count]

EntryKinds ==
    { Entry(FALSE, "missing", InfoDm, "missing", 0) }
    \cup { Entry(TRUE, c, InfoDm, m, 0) :
             c \in FileStates, m \in {"missing", "bad"} }
    \cup { Entry(TRUE, c, InfoDm, "ok", 0) : c \in {"missing", "bad"} }
    \cup { Entry(TRUE, "ok", i, "ok", n) : i \in ChannelInfos, n \in 0..MaxCount }

Named(i, e) == [id |-> DirNames[i]] @@ e

Listing(n, kinds) == [i \in 1..n |-> Named(i, kinds[i])]

\* qualifies with || for &&
qualifies_either(e) ==
    e.is_dir /\ (e.messages_json # "missing" \/ e.channel_json # "missing")

\* messages_file.exists() && channel_info_file.exists(), inside path.is_dir()
qualifies(e) ==
    e.is_dir /\ e.messages_json # "missing" /\ e.channel_json # "missing"

\* read_json of both files succeeds
readable(e) == e.channel_json = "ok" /\ e.messages_json = "ok"

InputKinds == {"zip", "bad_zip", "dir", "invalid"}

None == [some |-> FALSE, n |-> 0]
Some(n) == [some |-> TRUE, n |-> n]

Cli(conversation_type, min_messages, limit) ==
    [conversation_type |-> conversation_type, min_messages |-> min_messages,
     limit |-> limit]

\* the options of a run without arguments but the path
DefaultClis == { Cli("None", 1, None) }

\* the options of the runs that are repeated: the defaults, and --limit 1
RepeatedClis == { Cli("None", 1, None), Cli("None", 1, Some(1)) }

EmptyTree ==
    [messages_dir |-> FALSE, channel_index |-> IndexFile("missing", <<>>),
     server_index |-> IndexFile("missing", <<>>), entries |-> <<>>]

Tree(messages_dir, channel_index, server_index, entries) ==
    [messages_dir |-> messages_dir, channel_index |-> channel_index,
     server_index |-> server_index, entries |-> entries]

\* What a run never reads is left empty: the entries are not listed when an
\* index.json does not parse, and none is listed after one that fails to parse.
Unread(t) ==
    /\ (t.channel_index.state = "bad" \/ t.server_index.state = "bad")
          => t.entries = <<>>
    /\ \A i \in 1..(Len(t.entries) - 1) :
          qualifies(t.entries[i]) => readable(t.entries[i])

\* The exports: nothing is under an input path that is no export, and a tree
\* without a messages/ folder has no messages/index.json and no entries.
IsTree(kind, t) ==
    IF kind \in {"bad_zip", "invalid"} THEN t = EmptyTree
    ELSE \E s \in ServerIndexFiles :
           \/ t = Tree(FALSE, IndexFile("missing", <<>>), s, <<>>)
           \/ \E c \in ChannelIndexFiles, n \in 0..MaxUnits :
                \E kinds \in [1..n -> EntryKinds] :
                   /\ t = Tree(TRUE, c, s, Listing(n, kinds))
                   /\ Unread(t)

NoGuilds == <<>>

\* the state when main starts, its options among clis
Start(clis) ==
    /\ input_path \in InputKinds
    /\ IsTree(input_path, tree)
    /\ cli \in clis
    /\ pc = "prepare"
    /\ channel_mapping = NoMapping
    /\ guild_mapping = NoMapping
    /\ idx = 0
    /\ conversations = <<>>
    /\ guilds = NoGuilds
    /\ scan_result = "pending"
    /\ filtered = <<>>
    /\ pidx = 0
    /\ stdout = <<>>
    /\ stderr = <<>>
    /\ exit_status = "running"
    /\ run = 1
    /\ first_filtered = <<>>

Init == Start(DefaultClis)

----------------------------------------------------------------------------
(* main's error exits: eprintln!(...); return *)

\* `return` from fn main() -> (): the process ends with status 0
fail(message) ==
    /\ stderr' = Append(stderr, message)
    /\ pc' = "done"
    /\ exit_status' = 0

----------------------------------------------------------------------------
(* prepare_data_root and load_mappings *)

\* an archive is extracted to a directory, which is then the data root
prepare_data_root ==
    /\ pc = "prepare"
    /\ IF input_path \in {"zip", "dir"}
       THEN /\ pc' = "load"
            /\ input_path' = "dir"
            /\ UNCHANGED <<stderr, exit_status>>
       ELSE /\ fail("Error")
            /\ UNCHANGED input_path
    /\ UNCHANGED <<tree, cli, channel_mapping, guild_mapping, idx,
                   conversations, guilds, scan_result, filtered, pidx, stdout,
                   run, first_filtered>>

\* load_mapping: Ok(None) for a missing file, Ok(Some(mapping)) for a table
load_mapping(file) ==
    IF file.state = "ok" THEN SomeMapping(file.map) ELSE NoMapping

load_mappings ==
    /\ pc = "load"
    /\ IF tree.channel_index.state = "bad" \/ tree.server_index.state = "bad"
       THEN /\ fail("Error loading mappings")
            /\ UNCHANGED <<channel_mapping, guild_mapping>>
       ELSE /\ channel_mapping' = load_mapping(tree.channel_index)
            /\ guild_mapping' = load_mapping(tree.server_index)
            /\ pc' = "readdir"
            /\ UNCHANGED <<stderr, exit_status>>
    /\ UNCHANGED <<input_path, tree, cli, idx, conversations, guilds,
                   scan_result, filtered, pidx, stdout, run, first_filtered>>

----------------------------------------------------------------------------
(* process_conversations *)

\* Err(e) from process_conversations: the locals are dropped, main reports
process_error ==
    /\ scan_result' = "Err"
    /\ conversations' = <<>>
    /\ guilds' = NoGuilds
    /\ fail("Error processing conversations")

\* fs::read_dir(&messages_folder)?, then the empty Vec and HashMap
read_dir ==
    /\ pc = "readdir"
    /\ IF tree.messages_dir
       THEN /\ pc' = "scan"
            /\ idx' = 1
            /\ conversations' = <<>>
            /\ guilds' = NoGuilds
            /\ UNCHANGED <<scan_result, stderr, exit_status>>
       ELSE /\ process_error
            /\ UNCHANGED idx
    /\ UNCHANGED <<input_path, tree, cli, channel_mapping, guild_mapping,
                   filtered, pidx, stdout, run, first_filtered>>

\* guild_id_of with unwrap_or_default(): no sentinel for an unusable id
guild_id_of_default(info) == info.guild_id

\* guild_info.get("id").and_then(|v| v.as_str()).unwrap_or("Unknown")
guild_id_of(info) == IF info.id_kind = "string" THEN info.guild_id ELSE Unknown

\* the guild's name: the mapping's, or "Guild {id}"
guild_name_of(mapping, guild_id) ==
    lookup_or(mapping, guild_id, format_guild(guild_id))

\* channel_info.get("name").and_then(|v| v.as_str()).unwrap_or(&channel_id)
channel_name_of(info, channel_id) ==
    IF info.has_name THEN info.name ELSE channel_id

\* upsert_guild with `=` for `+=`: the total is the last channel's count
upsert_guild_overwrite(gs, guild_id, guild_name, channel_name, count) ==
    LET old == IF guild_id \in DOMAIN gs THEN gs[guild_id]
               ELSE Guild(guild_name, 0, <<>>)
        new == Guild(old.name, count,
                     Append(old.channels, Channel(channel_name, count)))
    IN  [k \in DOMAIN gs \cup {guild_id} |-> IF k = guild_id THEN new ELSE gs[k]]

\* upsert_guild with insert() for entry().or_insert_with(): a guild met again
\* starts over with the new channel alone
upsert_guild_replace(gs, guild_id, guild_name, channel_name, count) ==
    [k \in DOMAIN gs \cup {guild_id} |->
        IF k = guild_id
        THEN Guild(guild_name, count, << Channel(channel_name, count) >>)
        ELSE gs[k]]

\* guilds.entry(id).or_insert_with(..), then message_count += n; channels.push(..)
upsert_guild(gs, guild_id, guild_name, channel_name, count) ==
    LET old == IF guild_id \in DOMAIN gs THEN gs[guild_id]
               ELSE Guild(guild_name, 0, <<>>)
        new == Guild(old.name, old.message_count + count,
                     Append(old.channels, Channel(channel_name, count)))
    IN  [k \in DOMAIN gs \cup {guild_id} |-> IF k = guild_id THEN new ELSE gs[k]]

\* the name of a DM or group chat
conversation_name_of(mapping, channel_id) ==
    lookup_or(mapping, trim_start_matches(channel_id, "c"),
              format_conversation(channel_id))

InLoop == pc = "scan" /\ idx \in 1..Len(tree.entries)

LoopFrame ==
    UNCHANGED <<input_path, tree, cli, channel_mapping, guild_mapping,
                filtered, pidx, stdout, run, first_filtered>>

\* not a directory, or one of the two files is missing: next entry
scan_skip ==
    /\ InLoop
    /\ ~qualifies(tree.entries[idx])
    /\ idx' = idx + 1
    /\ UNCHANGED <<pc, conversations, guilds, scan_result, stderr, exit_status>>
    /\ LoopFrame

\* read_json(..)? fails on channel.json or messages.json
scan_error ==
    /\ InLoop
    /\ qualifies(tree.entries[idx])
    /\ ~readable(tree.entries[idx])
    /\ process_error
    /\ UNCHANGED idx
    /\ LoopFrame

\* a unit with a "guild" key: folded into its guild
scan_guild_channel ==
    /\ InLoop
    /\ LET e == tree.entries[idx]
           guild_id == guild_id_of(e.info)
       IN  /\ qualifies(e) /\ readable(e) /\ e.info.has_guild
           /\ guilds' = upsert_guild(guilds, guild_id,
                                     guild_name_of(guild_mapping, guild_id),
                                     channel_name_of(e.info, e.id), e.count)
    /\ idx' = idx + 1
    /\ UNCHANGED <<pc, conversations, scan_result, stderr, exit_status>>
    /\ LoopFrame

\* a unit without a "guild" key: a DM or group chat
scan_dm ==
    /\ InLoop
    /\ LET e == tree.entries[idx]
       IN  /\ qualifies(e) /\ readable(e) /\ ~e.info.has_guild
           /\ conversations' =
                Append(conversations,
                       DmOrGc(conversation_name_of(channel_mapping, e.id), e.count))
    /\ idx' = idx + 1
    /\ UNCHANGED <<pc, guilds, scan_result, stderr, exit_status>>
    /\ LoopFrame

\* the orders in which a HashMap's into_values() may yield its values
Orders(S) ==
    { o \in [1..Cardinality(S) -> S] : \A i, j \in DOMAIN o : i # j => o[i] # o[j] }

into_values(gs, order) == [i \in 1..Len(order) |-> gs[order[i]]]

\* conversations.extend(guilds.into_values()); Ok(conversations)
finish_scan ==
    /\ pc = "scan"
    /\ idx > Len(tree.entries)
    /\ \E order \in Orders(DOMAIN guilds) :
          conversations' = conversations \o into_values(guilds, order)
    /\ guilds' = NoGuilds
    /\ scan_result' = "Ok"
    /\ pc' = "filter"
    /\ UNCHANGED <<idx, stderr, exit_status>>
    /\ LoopFrame

----------------------------------------------------------------------------
(* filter_and_sort_conversations *)

\* filter_keep with <= for <: a conversation with exactly min_messages is dropped
filter_keep_le(conv, conversation_type, min_messages) ==
    IF conv.message_count <= min_messages THEN FALSE
    ELSE IF conversation_type # "None"
         THEN \/ conversation_type = "Dm" /\ conv.type = "DmOrGc"
              \/ conversation_type = "Guild" /\ conv.type = "Guild"
         ELSE TRUE

\* the closure given to filter()
filter_keep(conv, conversation_type, min_messages) ==
    IF conv.message_count < min_messages THEN FALSE
    ELSE IF conversation_type # "None"
         THEN \/ conversation_type = "Dm" /\ conv.type = "DmOrGc"
              \/ conversation_type = "Guild" /\ conv.type = "Guild"
         ELSE TRUE

filter_conversations(convs, conversation_type, min_messages) ==
    SelectSeq(convs, LAMBDA c : filter_keep(c, conversation_type, min_messages))

\* insert_desc with the comparison turned round: an ascending sort
RECURSIVE insert_asc(_, _)
insert_asc(sorted, x) ==
    IF sorted = <<>> THEN <<x>>
    ELSE IF Head(sorted).message_count <= x.message_count
         THEN <<Head(sorted)>> \o insert_asc(Tail(sorted), x)
         ELSE <<x>> \o sorted

\* x placed after every element that does not compare greater than it under
\* |a, b| b.message_count.cmp(&a.message_count)
RECURSIVE insert_desc(_, _)
insert_desc(sorted, x) ==
    IF sorted = <<>> THEN <<x>>
    ELSE IF Head(sorted).message_count >= x.message_count
         THEN <<Head(sorted)>> \o insert_desc(Tail(sorted), x)
         ELSE <<x>> \o sorted

\* slice::sort_by, a stable sort, descending by message_count
RECURSIVE sort_by_desc(_)
sort_by_desc(s) ==
    IF s = <<>> THEN <<>>
    ELSE insert_desc(sort_by_desc(SubSeq(s, 1, Len(s) - 1)), s[Len(s)])

\* if let Some(limit) = limit { filtered.truncate(limit) }
truncate(s, limit) ==
    IF limit.some /\ limit.n < Len(s) THEN SubSeq(s, 1, limit.n) ELSE s

filter_and_sort_conversations(convs, conversation_type, min_messages, limit) ==
    truncate(sort_by_desc(filter_conversations(convs, conversation_type,
                                               min_messages)),
             limit)

filter_and_sort ==
    /\ pc = "filter"
    /\ filtered' = filter_and_sort_conversations(conversations,
                       cli.conversation_type, cli.min_messages, cli.limit)
    /\ pc' = "print"
    /\ pidx' = 1
    /\ UNCHANGED <<input_path, tree, cli, channel_mapping, guild_mapping, idx,
                   conversations, guilds, scan_result, stdout, stderr,
                   exit_status, run, first_filtered>>

----------------------------------------------------------------------------
(* print_conversations and Conversation::print_tree *)

Line(kind, connector, name, count) ==
    [kind |-> kind, connector |-> connector, name |-> name, count |-> count]

\* connector comparing with len(): no line is the last
connector_past_end(i, len) == IF i = len THEN "last" ELSE "mid"

\* if i == sorted_channels.len() - 1 { "last" } else { "mid" }, i from 0
connector(i, len) == IF i = len - 1 THEN "last" ELSE "mid"

\* the results sort_unstable_by may give: any descending arrangement
sort_unstable_desc(chs) ==
    { [i \in 1..Len(chs) |-> chs[p[i]]] : p \in
        { q \in Orders(1..Len(chs)) :
            \A i \in 1..(Len(chs) - 1) :
                chs[q[i]].message_count >= chs[q[i + 1]].message_count } }

\* the lines print_tree writes for conv, its channels sorted as sorted_channels
print_tree(conv, sorted_channels) ==
    IF conv.type = "DmOrGc"
    THEN << Line("conversation", "", conv.name, conv.message_count) >>
    ELSE << Line("conversation", "", conv.name, conv.message_count) >>
         \o [i \in 1..Len(sorted_channels) |->
                Line("channel", connector(i - 1, Len(sorted_channels)),
                     sorted_channels[i].name, sorted_channels[i].message_count)]
         \o << Line("blank", "", <<>>, 0) >>

print_conversations ==
    /\ pc = "print"
    /\ pidx \in 1..Len(filtered)
    /\ \E sorted_channels \in sort_unstable_desc(filtered[pidx].channels) :
          stdout' = stdout \o print_tree(filtered[pidx], sorted_channels)
    /\ pidx' = pidx + 1
    /\ UNCHANGED <<input_path, tree, cli, pc, channel_mapping, guild_mapping,
                   idx, conversations, guilds, scan_result, filtered, stderr,
                   exit_status, run, first_filtered>>

\* main returns after print_conversations
main_exit ==
    /\ pc = "print"
    /\ pidx > Len(filtered)
    /\ pc' = "done"
    /\ exit_status' = 0
    /\ UNCHANGED <<input_path, tree, cli, channel_mapping, guild_mapping, idx,
                   conversations, guilds, scan_result, filtered, pidx, stdout,
                   stderr, run, first_filtered>>

Next ==
    \/ prepare_data_root
    \/ load_mappings
    \/ read_dir
    \/ scan_skip
    \/ scan_error
    \/ scan_guild_channel
    \/ scan_dm
    \/ finish_scan
    \/ filter_and_sort
    \/ print_conversations
    \/ main_exit

Spec == Init /\ [][Next]_vars

----------------------------------------------------------------------------
(* The program run a second time on the same export with the same options *)

rerun ==
    /\ pc = "done"
    /\ run = 1
    /\ run' = 2
    /\ first_filtered' = filtered
    /\ pc' = "prepare"
    /\ channel_mapping' = NoMapping
    /\ guild_mapping' = NoMapping
    /\ idx' = 0
    /\ conversations' = <<>>
    /\ guilds' = NoGuilds
    /\ scan_result' = "pending"
    /\ filtered' = <<>>
    /\ pidx' = 0
    /\ stdout' = <<>>
    /\ stderr' = <<>>
    /\ exit_status' = "running"
    /\ UNCHANGED <<input_path, tree, cli>>

NextTwice == Next \/ rerun

InitTwice == Start(RepeatedClis)

SpecTwice == InitTwice /\ [][NextTwice]_vars

----------------------------------------------------------------------------
(* filter_and_sort_conversations on its own: any list, any options *)

FilterNames == [i \in 1..Len(DirNames) |-> DirNames[i]]

ChannelLists ==
    { << Channel(General, n) >> : n \in 0..MaxCount }
    \cup { << Channel(General, MaxCount), Channel(Bob, MaxCount) >> }

\* the conversations a scan can return in position i
ConversationsAt(i) ==
    { DmOrGc(format_conversation(FilterNames[i]), n) : n \in 0..MaxCount }
    \cup { Guild(format_guild(FilterNames[i]), SumCounts(chs), chs) :
             chs \in ChannelLists }

\* the lists of n conversations
RECURSIVE ConversationLists(_)
ConversationLists(n) ==
    IF n = 0 THEN { <<>> }
    ELSE { Append(l, c) : l \in ConversationLists(n - 1), c \in ConversationsAt(n) }

FilterClis ==
    { Cli(t, m, l) :
        t \in {"None", "Dm", "Guild"},
        m \in 0..(MaxCount + 1),
        l \in {None} \cup { Some(n) : n \in 0..(MaxConvs - 1) } }

InitFilter ==
    /\ input_path = "dir"
    /\ tree = Tree(TRUE, IndexFile("missing", <<>>), IndexFile("missing", <<>>), <<>>)
    /\ pc = "filter"
    /\ channel_mapping = NoMapping
    /\ guild_mapping = NoMapping
    /\ idx = 1
    /\ \E n \in 0..MaxConvs : conversations \in ConversationLists(n)
    /\ cli \in FilterClis
    /\ guilds = NoGuilds
    /\ scan_result = "Ok"
    /\ filtered = <<>>
    /\ pidx = 0
    /\ stdout = <<>>
    /\ stderr = <<>>
    /\ exit_status = "running"
    /\ run = 1
    /\ first_filtered = <<>>

NextFilter == filter_and_sort

SpecFilter == InitFilter /\ [][NextFilter]_vars

----------------------------------------------------------------------------
(* What the claims speak of *)

Range(s) == { s[i] : i \in DOMAIN s }

GuildsOf(convs) == SelectSeq(convs, LAMBDA c : c.type = "Guild")
DmsOf(convs) == SelectSeq(convs, LAMBDA c : c.type = "DmOrGc")

\* every Guild the program holds: in the map, in the list, in the filtered list
AllGuilds ==
    { guilds[g] : g \in DOMAIN guilds }
    \cup Range(GuildsOf(conversations)) \cup Range(GuildsOf(filtered))

\* a unit with both files present and parsed
IsUnit(e) == e.is_dir /\ e.channel_json = "ok" /\ e.messages_json = "ok"
IsGuildUnit(e) == IsUnit(e) /\ e.info.has_guild
IsDmUnit(e) == IsUnit(e) /\ ~e.info.has_guild

\* the entries the loop has gone through
Scanned == IF pc = "scan" THEN SubSeq(tree.entries, 1, idx - 1) ELSE tree.entries

\* the guild id a unit's reference stands for
ClaimGuildId(e) ==
    IF e.info.id_kind = "string" THEN e.info.guild_id ELSE Unknown

ClaimGuildIds(es) == { ClaimGuildId(es[i]) : i \in { j \in DOMAIN es : IsGuildUnit(es[j]) } }

\* the channels of guild g, one per unit of es that refers to g, in order
ClaimChannels(es, g) ==
    LET us == SelectSeq(es, LAMBDA e : IsGuildUnit(e) /\ ClaimGuildId(e) = g)
    IN  [i \in 1..Len(us) |->
            Channel(channel_name_of(us[i].info, us[i].id), us[i].count)]

\* the name of guild g: servers/index.json's, or "Guild {id}"
ClaimGuildName(g) ==
    IF tree.server_index.state = "ok" /\ g \in DOMAIN tree.server_index.map
    THEN tree.server_index.map[g]
    ELSE GuildPrefix \o g

----------------------------------------------------------------------------
(* C1 *)

\* C1: at every point of the scan and after it, every Guild (in the guild-id
\* map, in the returned list, in the filtered list) has a message_count equal
\* to the sum of the message_count of its channels.
C1_GuildTotalIsSum ==
    \A g \in AllGuilds : g.message_count = SumCounts(g.channels)

\* a guild in the map, in the middle of the scan, with two non-empty channels
C1_Witness ==
    /\ pc = "scan"
    /\ \E g \in DOMAIN guilds :
          /\ Len(guilds[g].channels) = 2
          /\ \A i \in 1..2 : guilds[g].channels[i].message_count > 0

----------------------------------------------------------------------------
(* C2 *)

\* C2: during the scan the guild-id map holds exactly one entry per guild id
\* met so far, whose channels are the units that refer to it, each once and in
\* order; when process_conversations succeeds, the returned list holds exactly
\* one Guild per distinct guild id, with exactly those channels.
C2_EveryGuildUnitOnce ==
    /\ pc = "scan" =>
          /\ DOMAIN guilds = ClaimGuildIds(Scanned)
          /\ \A g \in DOMAIN guilds : guilds[g].channels = ClaimChannels(Scanned, g)
    /\ scan_result = "Ok" =>
          LET gs == GuildsOf(conversations)
          IN  \E order \in Orders(ClaimGuildIds(tree.entries)) :
                 /\ Len(gs) = Len(order)
                 /\ \A i \in DOMAIN gs :
                       gs[i].channels = ClaimChannels(tree.entries, order[i])

\* a successful scan that merged two units into one guild
C2_Witness ==
    /\ scan_result = "Ok"
    /\ \E c \in Range(GuildsOf(conversations)) : Len(c.channels) = 2

----------------------------------------------------------------------------
(* C9 *)

\* C9: a unit with a guild reference is filed under the reference's string
\* id, or under "Unknown" when the id is absent or no string; the Guild's name
\* is servers/index.json's value for that id, or "Guild " followed by the id
\* when the file is absent or lacks the key.
C9_GuildIdAndName ==
    /\ pc = "scan" =>
          /\ \A i \in DOMAIN Scanned :
                IsGuildUnit(Scanned[i]) =>
                   /\ ClaimGuildId(Scanned[i]) \in DOMAIN guilds
                   /\ guilds[ClaimGuildId(Scanned[i])].name =
                         ClaimGuildName(ClaimGuildId(Scanned[i]))
          /\ \A g \in DOMAIN guilds : g \in ClaimGuildIds(Scanned)
    /\ scan_result = "Ok" =>
          /\ { c.name : c \in Range(GuildsOf(conversations)) } =
                { ClaimGuildName(g) : g \in ClaimGuildIds(tree.entries) }
          /\ Len(GuildsOf(conversations)) = Cardinality(ClaimGuildIds(tree.entries))

\* two units without a usable id, merged into the one guild "Guild Unknown"
C9_Witness ==
    /\ scan_result = "Ok"
    /\ \E c \in Range(GuildsOf(conversations)) :
          /\ c.name = GuildPrefix \o Unknown
          /\ Len(c.channels) = 2
    /\ \E i, j \in DOMAIN tree.entries :
          /\ tree.entries[i].info.id_kind = "absent"
          /\ tree.entries[j].info.id_kind = "number"
          /\ IsGuildUnit(tree.entries[i]) /\ IsGuildUnit(tree.entries[j])

----------------------------------------------------------------------------
(* C7 *)

\* a subdirectory that lacks channel.json or messages.json
ClaimLacksFile(e) ==
    e.is_dir /\ (e.channel_json = "missing" \/ e.messages_json = "missing")

\* a subdirectory with both files, one of which cannot be read or parsed
ClaimBroken(e) ==
    /\ e.is_dir /\ e.channel_json # "missing" /\ e.messages_json # "missing"
    /\ (e.channel_json = "bad" \/ e.messages_json = "bad")

RECURSIVE SumMessages(_)
SumMessages(convs) ==
    IF convs = <<>> THEN 0 ELSE Head(convs).message_count + SumMessages(Tail(convs))

RECURSIVE SumLens(_)
SumLens(convs) ==
    IF convs = <<>> THEN 0 ELSE Len(Head(convs).channels) + SumLens(Tail(convs))

RECURSIVE SumUnits(_)
SumUnits(es) ==
    IF es = <<>> THEN 0
    ELSE (IF IsUnit(Head(es)) THEN Head(es).count ELSE 0) + SumUnits(Tail(es))

GuildSeq == LET o == CHOOSE o \in Orders(DOMAIN guilds) : TRUE
            IN  [i \in 1..Len(o) |-> guilds[o[i]]]

\* C7: a subdirectory lacking channel.json or messages.json raises no error
\* and adds no conversation, no channel and no message to any total: only the
\* units with both files count; a subdirectory with both files, one of them
\* unreadable or unparsable, makes process_conversations return an error and
\* no list, so that nothing is filtered or printed.
C7_SkipOrAbort ==
    /\ pc = "scan" =>
          /\ scan_result = "pending" /\ stderr = <<>>
          /\ Len(conversations) + SumLens(GuildSeq) =
                Cardinality({ i \in DOMAIN Scanned : IsUnit(Scanned[i]) })
          /\ SumMessages(conversations) + SumMessages(GuildSeq) = SumUnits(Scanned)
    /\ scan_result = "Err" =>
          \/ ~tree.messages_dir
          \/ \E i \in DOMAIN tree.entries : ClaimBroken(tree.entries[i])
    /\ (\E i \in DOMAIN tree.entries : ClaimBroken(tree.entries[i])) =>
          /\ pc \notin {"filter", "print"}
          /\ scan_result # "Ok"
          /\ pc = "done" =>
                /\ scan_result = "Err"
                /\ conversations = <<>> /\ guilds = NoGuilds
                /\ filtered = <<>> /\ stdout = <<>>
                /\ stderr = << "Error processing conversations" >>

\* a run that skipped a subdirectory lacking a file, then failed on a broken one
C7_Witness ==
    /\ pc = "done" /\ scan_result = "Err"
    /\ Len(tree.entries) >= 2
    /\ ClaimLacksFile(tree.entries[1])
    /\ ClaimBroken(tree.entries[2])

----------------------------------------------------------------------------
(* C10 *)

PrintedGuilds ==
    IF pc \in {"print", "done"} /\ pidx >= 1
    THEN GuildsOf(SubSeq(filtered, 1, pidx - 1))
    ELSE <<>>

\* C10: every Guild the program holds has at least one channel; in the output
\* every guild's channel block is non-empty, is printed whole, in non-increasing
\* message_count order, and ends with its only last-element connector, followed
\* by the blank line.
C10_GuildsHaveChannels ==
    /\ \A g \in AllGuilds : Len(g.channels) >= 1
    /\ \A i \in DOMAIN stdout :
          /\ stdout[i].kind = "channel" => stdout[i].connector \in {"last", "mid"}
          /\ (stdout[i].kind = "channel" /\ stdout[i].connector = "last") =>
                i < Len(stdout) /\ stdout[i + 1].kind = "blank"
          /\ (stdout[i].kind = "channel" /\ stdout[i].connector = "mid") =>
                /\ i < Len(stdout) /\ stdout[i + 1].kind = "channel"
                /\ stdout[i + 1].count <= stdout[i].count
          /\ stdout[i].kind = "blank" =>
                /\ i > 1 /\ stdout[i - 1].kind = "channel"
                /\ stdout[i - 1].connector = "last"
    /\ Cardinality({ i \in DOMAIN stdout : stdout[i].kind = "blank" }) =
          Len(PrintedGuilds)
    /\ Cardinality({ i \in DOMAIN stdout : stdout[i].kind = "channel" }) =
          SumLens(PrintedGuilds)

\* a guild printed with two channels of different counts, scanned in rising order
C10_Witness ==
    /\ pc = "done"
    /\ \E i \in DOMAIN stdout :
          /\ stdout[i].kind = "channel" /\ stdout[i].connector = "mid"
          /\ stdout[i + 1].count < stdout[i].count
    /\ \E c \in Range(GuildsOf(filtered)) :
          /\ Len(c.channels) = 2
          /\ c.channels[1].message_count < c.channels[2].message_count

----------------------------------------------------------------------------
(* C3 *)

\* C3: once main has ended, after a fatal error (an error line was printed)
\* the exit status is nonzero and no report line was printed, and otherwise
\* the exit status is zero.
C3_NonzeroExitOnError ==
    pc = "done" =>
        IF stderr # <<>>
        THEN exit_status # 0 /\ stdout = <<>>
        ELSE exit_status = 0

----------------------------------------------------------------------------
(* C4 *)

\* the unit id without one leading 'c'
ClaimKey(id) == IF id # <<>> /\ Head(id) = "c" THEN Tail(id) ELSE id

ClaimDmName(id) ==
    IF tree.channel_index.state = "ok" /\ ClaimKey(id) \in DOMAIN tree.channel_index.map
    THEN tree.channel_index.map[ClaimKey(id)]
    ELSE ConversationPrefix \o id

\* C4: every DM or group unit is named by messages/index.json's value for its
\* id without exactly one leading 'c', and "Conversation " followed by the
\* whole id when the file is absent or lacks that key.
C4_SingleLeadingC ==
    (pc = "scan" \/ scan_result = "Ok") =>
        LET us == SelectSeq(Scanned, IsDmUnit)
        IN  DmsOf(conversations) =
               [i \in 1..Len(us) |-> DmOrGc(ClaimDmName(us[i].id), us[i].count)]

----------------------------------------------------------------------------
(* C6 *)

\* C6: a second run on the same export with the same options ends with the
\* same ordered list of conversations as the first.
C6_SameOrderOnRerun ==
    (run = 2 /\ pc = "done") => filtered = first_filtered

----------------------------------------------------------------------------
(* C5 and C8 *)

\* the conversations the options let through
ClaimPasses(c) ==
    /\ c.message_count >= cli.min_messages
    /\ \/ cli.conversation_type = "None"
       \/ cli.conversation_type = "Dm" /\ c.type = "DmOrGc"
       \/ cli.conversation_type = "Guild" /\ c.type = "Guild"

ClaimPassing == { c \in Range(conversations) : ClaimPasses(c) }

\* what a conversation is ranked by: a Guild by the total of its channels
ClaimRank(c) ==
    IF c.type = "Guild" THEN SumCounts(c.channels) ELSE c.message_count

\* C5: with limit N the result holds min(N, number passing) entries (all of
\* them without a limit), every one a passing conversation and none twice, in
\* non-increasing order of rank; no passing conversation left out ranks
\* strictly above one that is in. A Guild's rank is its channels' total.
C5_TopNByTotal ==
    pc = "print" =>
        /\ cli.limit.some => Len(filtered) <= cli.limit.n
        /\ \A i \in 1..(Len(filtered) - 1) :
              ClaimRank(filtered[i]) >= ClaimRank(filtered[i + 1])
        /\ Range(filtered) \subseteq ClaimPassing
        /\ Cardinality(Range(filtered)) = Len(filtered)
        /\ Len(filtered) =
              IF cli.limit.some /\ cli.limit.n < Cardinality(ClaimPassing)
              THEN cli.limit.n
              ELSE Cardinality(ClaimPassing)
        /\ \A c \in ClaimPassing \ Range(filtered) :
              \A r \in Range(filtered) : ClaimRank(c) <= ClaimRank(r)

\* --limit 1 keeps a guild whose two channels total more than a DM listed
\* before it, though no single channel of the guild has more messages
C5_Witness ==
    /\ pc = "print"
    /\ cli.limit = Some(1)
    /\ Len(filtered) = 1
    /\ filtered[1].type = "Guild"
    /\ Len(filtered[1].channels) = 2
    /\ \E i, j \in DOMAIN conversations :
          /\ i < j
          /\ conversations[j] = filtered[1]
          /\ conversations[i].type = "DmOrGc"
          /\ ClaimPasses(conversations[i])
          /\ \A k \in 1..2 :
                filtered[1].channels[k].message_count <= conversations[i].message_count

\* C8: without a limit the result holds exactly the conversations with
\* message_count >= min_messages of the wanted variant, each once and
\* unchanged; filtering the sorted list gives the same set.
C8_FilterExact ==
    (pc = "print" /\ ~cli.limit.some) =>
        /\ Range(filtered) = ClaimPassing
        /\ Len(filtered) = Cardinality(ClaimPassing)
        /\ Range(filter_conversations(sort_by_desc(conversations),
                                      cli.conversation_type, cli.min_messages))
              = Range(filtered)

\* --conversation-type guild --min-messages 1: a DM with messages and an empty
\* guild are dropped, a guild with messages is kept
C8_Witness ==
    /\ pc = "print" /\ ~cli.limit.some
    /\ cli.conversation_type = "Guild" /\ cli.min_messages = 1
    /\ filtered # <<>>
    /\ \E c \in Range(conversations) : c.type = "DmOrGc" /\ c.message_count >= 1
    /\ \E c \in Range(conversations) : c.type = "Guild" /\ c.message_count = 0

====
